---- MODULE Spec2Model ----
(***************************************************************************)
(* defont: the bitmap-to-font compiler of tools/generate-fonts.py.         *)
(*                                                                         *)
(* One run of main()/build_font() is a sequence of steps over the state    *)
(* of the build: the filter loop, palette generation, the October rule,    *)
(* the glyph loop with its inner pixel loop, the character map, the        *)
(* horizontal metrics and the three container saves.  Names of the         *)
(* variables and operators are those of the source.                        *)
(*                                                                         *)
(* random.Random(seed) is a Mersenne twister in CPython.  The model keeps  *)
(* what the build relies on: a stream whose state is set from the seed     *)
(* alone and advanced by one step per draw; randint(a, b) lies in a..b.    *)
(* The generator itself is a 16-bit linear congruential one.               *)
(***************************************************************************)
EXTENDS Integers, Sequences, FiniteSets, TLC

(* ------------------------------------------------------------------ *)
(* Bounds of the model                                                 *)
(* ------------------------------------------------------------------ *)
MaxCols == 2        \* widest grid has ROWS * MaxCols pixels
MaxListLen == 3     \* longest list given to compress_to_ranges
MaxText == 4        \* longest stdout of the PHP process, in characters
MaxValues == 330    \* longest flat array given to normalize_glyph
MaxEntries == 2     \* entries of the glyph table

(* ------------------------------------------------------------------ *)
(* Program constants                                                   *)
(* ------------------------------------------------------------------ *)
ROWS == 9

Codepoints == {32, 65, 66}

(* Metrics (dataclass): the defaults of the source, the 85-unit cell of   *)
(* the specification's scenario, and a configuration without padding.    *)
DefaultMetrics ==
    [upm |-> 1000, cell |-> 90, left_pad_cells |-> 1, right_pad_cells |-> 1,
     letterspacing_cells |-> 0]

MetricsSet ==
    { DefaultMetrics,
      [upm |-> 1000, cell |-> 85, left_pad_cells |-> 1, right_pad_cells |-> 1,
       letterspacing_cells |-> 0],
      [upm |-> 1000, cell |-> 85, left_pad_cells |-> 0, right_pad_cells |-> 0,
       letterspacing_cells |-> 0] }

(* Wall-clock dates a build can run at. *)
Dates ==
    { [year |-> 2026, month |-> 10, day |-> 31],
      [year |-> 2026, month |-> 11, day |-> 1] }

(* Dates of a build and of a later build of the same command line. *)
RerunDates == Dates \cup { [year |-> 2026, month |-> 10, day |-> 30] }

(* --seed: 0 derives the seed from the date, 1 is a seed given *)
SeedArgs == {0, 1}

(* --jitter: disabled, and the default of the command line *)
JitterArgs == {0, 3}

(* int(datetime.now().strftime("%Y%m%d")) *)
DateSeed(d) == d.year * 10000 + d.month * 100 + d.day

(* ------------------------------------------------------------------ *)
(* Pixel grids                                                         *)
(* ------------------------------------------------------------------ *)
GridOf(len, on) == [k \in 1..len |-> IF (k - 1) \in on THEN 1 ELSE 0]

(* A grid of one column with no pixel set. *)
BlankGrid == GridOf(ROWS, {})

(* For every width: the grid whose first and last pixel are set (top row, *)
(* first column; bottom row, last column).                                *)
CornerGrid(cols) == GridOf(ROWS * cols, {0, ROWS * cols - 1})

WellFormedGrids == {BlankGrid} \cup { CornerGrid(c) : c \in 1..MaxCols }

(* A grid of ROWS + 1 pixels: its length is no multiple of ROWS. *)
MalformedGrid == GridOf(ROWS + 1, {0, 1})

GridSet == {<<>>, MalformedGrid} \cup WellFormedGrids

(* dict insertion order: a sequence of (cp, pixels) with distinct keys *)
DistinctKeys(t) == \A a, b \in 1..Len(t) : a # b => t[a].cp # t[b].cp

Entries == [cp : Codepoints, pixels : GridSet]

RECURSIVE SeqsUpTo(_, _)
SeqsUpTo(S, n) ==
    IF n = 0 THEN {<<>>}
    ELSE LET shorter == SeqsUpTo(S, n - 1)
         IN  shorter \cup { Append(s, e) : s \in shorter, e \in S }

(* The dict order of a table is by ascending or by descending key. *)
Monotone(t) ==
    \/ \A k \in 1..(Len(t) - 1) : t[k].cp < t[k + 1].cp
    \/ \A k \in 1..(Len(t) - 1) : t[k].cp > t[k + 1].cp

Tables == { t \in SeqsUpTo(Entries, MaxEntries) : DistinctKeys(t) /\ Monotone(t) }

(* The tables of a build that is run again, on the same or an edited table. *)
RerunEntries ==
    { [cp |-> 32, pixels |-> <<>>],
      [cp |-> 65, pixels |-> MalformedGrid],
      [cp |-> 65, pixels |-> CornerGrid(1)],
      [cp |-> 66, pixels |-> CornerGrid(1)],
      [cp |-> 66, pixels |-> GridOf(ROWS, {ROWS - 1})] }

RerunTables ==
    { t \in SeqsUpTo(RerunEntries, MaxEntries) : DistinctKeys(t) /\ Monotone(t) }

(* ------------------------------------------------------------------ *)
(* glyph_name_for_codepoint and string formatting                      *)
(* ------------------------------------------------------------------ *)
HexDigit == <<"0", "1", "2", "3", "4", "5", "6", "7", "8", "9",
              "A", "B", "C", "D", "E", "F">>

RECURSIVE HexStr(_)
HexStr(n) ==
    IF n < 16 THEN HexDigit[n + 1]
    ELSE HexStr(n \div 16) \o HexDigit[(n % 16) + 1]

RECURSIVE DecStr(_)
DecStr(n) ==
    IF n < 0 THEN "-" \o DecStr(0 - n)
    ELSE IF n < 10 THEN HexDigit[n + 1]
    ELSE DecStr(n \div 10) \o HexDigit[(n % 10) + 1]

(* the zero padding of the format specs 04X and 06X: a minimum width *)
RECURSIVE ZeroPad(_, _)
ZeroPad(s, width) == IF Len(s) >= width THEN s ELSE ZeroPad("0" \o s, width)

glyph_name_for_codepoint(cp) ==
    IF cp = 32 THEN "space"
    ELSE IF cp <= 65535 THEN "uni" \o ZeroPad(HexStr(cp), 4)
    ELSE "u" \o ZeroPad(HexStr(cp), 6)

(* a layer name that leaves the palette index out *)
LayerNameOfBase(gname, index) == gname \o ".p"

(* f"{gname}.p{next_palette_index}" *)
LayerName(gname, index) == gname \o ".p" \o DecStr(index)

(* ------------------------------------------------------------------ *)
(* The seeded random stream                                            *)
(* ------------------------------------------------------------------ *)
RngModulus == 65536

RngStep(state) == (state * 25173 + 13849) % RngModulus

(* rng.randint(lo, hi): one step of the stream, a value in lo..hi *)
RandInt(state, lo, hi) ==
    [value |-> lo + ((RngStep(state) \div 256) % (hi - lo + 1)),
     rng   |-> RngStep(state)]

(* a palette entry whose green is drawn from the whole byte *)
de_jade_any_green(state) ==
    LET r == RandInt(state, 0, 127)
        g == RandInt(r.rng, 0, 255)
        b == RandInt(g.rng, 0, 191)
    IN  [color |-> <<r.value, g.value, b.value, 128>>, rng |-> b.rng]

(* de_jade(rng): r, g, b drawn in this order, alpha 128 *)
de_jade(state) ==
    LET r == RandInt(state, 0, 127)
        g == RandInt(r.rng, 127, 255)
        b == RandInt(g.rng, 0, 191)
    IN  [color |-> <<r.value, g.value, b.value, 128>>, rng |-> b.rng]

(* [de_jade(rng) for _ in range(palette_size)] *)
RECURSIVE GenPalette(_, _)
GenPalette(state, size) ==
    IF size <= 0 THEN [palette |-> <<>>, rng |-> state]
    ELSE LET head == de_jade(state)
             rest == GenPalette(head.rng, size - 1)
         IN  [palette |-> <<head.color>> \o rest.palette, rng |-> rest.rng]

(* x[i] = x[j]: an assignment in place of the exchange *)
SwapOverwrite(x, a, b) == [x EXCEPT ![a] = x[b]]

(* x[i], x[j] = x[j], x[i] *)
Swap(x, a, b) == [x EXCEPT ![a] = x[b], ![b] = x[a]]

(* rng.shuffle(x): for i in reversed(range(1, len(x))):                   *)
(*                     j = randbelow(i + 1); x[i], x[j] = x[j], x[i]      *)
(* `i` here is the 1-based position of Python's x[i].                     *)
RECURSIVE ShuffleFrom(_, _, _)
ShuffleFrom(x, state, i) ==
    IF i <= 1 THEN [palette |-> x, rng |-> state]
    ELSE LET j == RandInt(state, 0, i - 1)
         IN  ShuffleFrom(Swap(x, i, j.value + 1), j.rng, i - 1)

AccentColor == <<255, 68, 136, 128>>

(* ------------------------------------------------------------------ *)
(* Geometry                                                            *)
(* ------------------------------------------------------------------ *)
(* rect_to_pen: one closed contour of four on-curve points *)
rect_to_pen(x0, y0, x1, y1) == << <<x0, y0>>, <<x1, y0>>, <<x1, y1>>, <<x0, y1>> >>

(* int(cell * (j / 24.0)): the fraction is cut off *)
JitterExtraTruncated(cell, j) == (cell * j) \div 24

(* int(round(cell * (j / 24.0))): Python rounds a half to the even integer *)
JitterExtra(cell, j) ==
    LET n == cell * j
        q == n \div 24
        r == n % 24
    IN  IF 2 * r > 24 \/ (2 * r = 24 /\ q % 2 = 1) THEN q + 1 ELSE q

(* the rectangle of the on-pixel at linear index i (0-based), jitter j *)
PixelRect(m, cols, i, extra) ==
    LET row   == i \div cols
        col   == i % cols
        x     == (m.left_pad_cells + col) * m.cell
        y_top == (ROWS - row) * m.cell
        w     == m.cell + extra
        h     == m.cell + extra
    IN  [x0 |-> x, x1 |-> x + w, y1 |-> y_top, y0 |-> y_top - h]

(* ------------------------------------------------------------------ *)
(* run_php_chars_to_json: the keys of the decoded JSON object            *)
(* ------------------------------------------------------------------ *)
(* A key of the JSON object is a string, held as its characters. *)
RECURSIVE DecChars(_)
DecChars(n) ==
    IF n < 10 THEN <<HexDigit[n + 1]>>
    ELSE Append(DecChars(n \div 10), HexDigit[(n % 10) + 1])

NotdefKey == <<".", "n", "o", "t", "d", "e", "f">>

(* json_encode of the PHP array: $c['.notdef'] and the numeric keys, each *)
(* numeric key in decimal                                                 *)
RawOf(t) ==
    <<[key |-> NotdefKey, value |-> CornerGrid(1)]>>
        \o [k \in 1..Len(t) |-> [key |-> DecChars(t[k].cp), value |-> t[k].pixels]]

DecDigits == { HexDigit[d] : d \in 1..10 }

(* ks.isdigit() *)
IsDigitKey(ks) == Len(ks) > 0 /\ \A k \in 1..Len(ks) : ks[k] \in DecDigits

(* int(ks) of a key made of decimal digits *)
RECURSIVE IntOfKey(_)
IntOfKey(ks) ==
    IF Len(ks) = 0 THEN 0
    ELSE 10 * IntOfKey(SubSeq(ks, 1, Len(ks) - 1))
           + ((CHOOSE d \in 1..10 : HexDigit[d] = ks[Len(ks)]) - 1)

(* the loop over raw.items() (lines 146-163): non-numeric keys are left   *)
(* out, cmap[cp] = pixels for the others                                  *)
RECURSIVE NumericEntries(_)
NumericEntries(r) ==
    IF r = <<>> THEN <<>>
    ELSE (IF IsDigitKey(Head(r).key)
          THEN <<[cp |-> IntOfKey(Head(r).key), pixels |-> Head(r).value]>>
          ELSE <<>>)
         \o NumericEntries(Tail(r))

(* ------------------------------------------------------------------ *)
(* State                                                               *)
(* ------------------------------------------------------------------ *)
VARIABLES
    clock,              \* the wall-clock date of this run (datetime.now())
    args_seed,          \* --seed
    raw,                \* the JSON object printed by PHP, in key order
    chars,              \* the glyph table, in dict order
    jitter_px_max,
    metrics,
    pc,                 \* position in main / build_font
    seed,
    rng,
    fi,                 \* position of the filter loop in chars (1-based)
    filtered,
    total_ones,
    palette_size,
    palette,
    next_palette_index,
    glyph_order,
    glyphs,
    advance_widths,
    left_side_bearings,
    color_layers,
    todo,               \* sorted(filtered.keys()) not yet visited
    cur,                \* locals of the glyph loop body
    cmap,
    hmtx,
    files,              \* container flavors written to disk by this run
    prev,               \* the previous run (inputs and result), if any
    warnings,           \* the keys named by warnings on stderr, in order
    mf,                 \* generate-manifest.py: locals of compress_to_ranges
    php,                \* run_php_chars_to_json: the process output and locals
    gd                  \* generate-data.py: locals of normalize_glyph

inputs == <<clock, args_seed, raw, chars, jitter_px_max, metrics>>
aside == <<warnings, mf, php, gd>>
tables == <<glyph_order, glyphs, advance_widths, left_side_bearings, color_layers>>
sizing == <<filtered, total_ones, palette_size>>
vars == <<clock, args_seed, chars, jitter_px_max, metrics, pc, seed, rng, fi,
          filtered, total_ones, palette_size, palette, next_palette_index,
          glyph_order, glyphs, advance_widths, left_side_bearings,
          color_layers, todo, cur, cmap, hmtx, files, prev, raw, warnings, mf, php, gd>>

Empty == <<>>       \* the empty dict (a function with empty domain)

NoGlyph ==
    [cp |-> -1, gname |-> "", pixels |-> <<>>, cols |-> 0, aw |-> 0, i |-> 0,
     base_pen |-> <<>>, layers_for_glyph |-> <<>>]

(* d[k] = v *)
Put(d, k, v) == (k :> v) @@ d

(* compress_to_ranges is not being run *)
MfIdle ==
    [pc |-> "idle", codepoints |-> <<>>, cps |-> <<>>, k |-> 0, start |-> 0,
     prev |-> 0, ranges |-> <<>>]

(* run_php_chars_to_json is not being run *)
NoValue == [type |-> "", members |-> <<>>]

NoError == [type |-> "", carries |-> <<>>]

PhpIdle ==
    [pc |-> "idle", stdout |-> <<>>, stderr |-> <<>>, returncode |-> 0,
     json_blob |-> <<>>, raw |-> NoValue, error |-> NoError]

(* Python's None where an integer may stand *)
None == -1

(* normalize_glyph is not being run *)
GdIdle ==
    [pc |-> "idle", values |-> <<>>, h |-> 0, best |-> <<>>, best_score |-> None,
     width |-> None, height |-> None, rows |-> <<>>, error |-> ""]

(* the state of a run before main() has done anything *)
Fresh ==
    /\ pc = "main"
    /\ chars = <<>>
    /\ warnings = <<>>
    /\ seed = 0
    /\ rng = 0
    /\ fi = 1
    /\ filtered = Empty
    /\ total_ones = 0
    /\ palette_size = 0
    /\ palette = <<>>
    /\ next_palette_index = 0
    /\ glyph_order = <<>>
    /\ glyphs = Empty
    /\ advance_widths = Empty
    /\ left_side_bearings = Empty
    /\ color_layers = Empty
    /\ todo = <<>>
    /\ cur = NoGlyph
    /\ cmap = Empty
    /\ hmtx = Empty
    /\ files = {}

Init ==
    /\ clock \in Dates
    /\ args_seed \in SeedArgs
    /\ raw \in { RawOf(t) : t \in Tables }
    /\ jitter_px_max \in JitterArgs
    /\ metrics \in MetricsSet
    /\ Fresh
    /\ prev = <<>>
    /\ mf = MfIdle
    /\ php = PhpIdle
    /\ gd = GdIdle

(* ------------------------------------------------------------------ *)
(* main                                                                *)
(* ------------------------------------------------------------------ *)
(* if args.seed == 0: args.seed = int(now.strftime("%Y%m%d")) *)
MainSeed(given, now) == IF given = 0 THEN DateSeed(now) ELSE given

(* a stream seeded with the date of the run on top of the seed *)
NewRandomDated(s) == (s + DateSeed(clock)) % RngModulus

(* random.Random(seed): the state is a function of the seed alone *)
NewRandom(s) == s % RngModulus

(* main up to the call of build_font: chars = run_php_chars_to_json(...), *)
(* the seed, and rng = random.Random(seed)                                *)
Main ==
    /\ pc = "main"
    /\ seed' = MainSeed(args_seed, clock)
    /\ rng' = NewRandom(MainSeed(args_seed, clock))
    /\ chars' = NumericEntries(raw)
    /\ pc' = "filter"
    /\ UNCHANGED <<clock, args_seed, raw, jitter_px_max, metrics, aside, fi, sizing, palette, next_palette_index, tables,
                   todo, cur, cmap, hmtx, files, prev>>

(* ------------------------------------------------------------------ *)
(* build_font: filter / validate                                       *)
(* ------------------------------------------------------------------ *)
(* a filter loop without the length check *)
FilterOneUnchecked(f, e) ==
    IF Len(e.pixels) = 0 THEN Put(f, e.cp, <<>>) ELSE Put(f, e.cp, e.pixels)

(* the body of the filter loop (lines 236-244) *)
FilterOne(f, e) ==
    IF Len(e.pixels) = 0 THEN Put(f, e.cp, <<>>)
    ELSE IF Len(e.pixels) % ROWS # 0 THEN f
    ELSE Put(f, e.cp, e.pixels)

(* one iteration of `for cp, pixels in chars.items()` *)
FilterEntry ==
    /\ pc = "filter"
    /\ fi <= Len(chars)
    /\ filtered' = FilterOne(filtered, chars[fi])
    /\ fi' = fi + 1
    /\ UNCHANGED <<inputs, aside, pc, seed, rng, total_ones, palette_size, palette,
                   next_palette_index, tables, todo, cur, cmap, hmtx, files, prev>>

RECURSIVE SumSeq(_)
SumSeq(s) == IF Len(s) = 0 THEN 0 ELSE s[1] + SumSeq(Tail(s))

RECURSIVE SumOver(_, _)
SumOver(f, keys) ==
    IF keys = {} THEN 0
    ELSE LET k == CHOOSE x \in keys : TRUE
         IN  SumSeq(f[k]) + SumOver(f, keys \ {k})

(* one palette entry per glyph that has on-pixels, not one per on-pixel *)
TotalOnesPerGlyph(f) == Cardinality({ k \in DOMAIN f : SumSeq(f[k]) > 0 })

(* sum(sum(p) for p in filtered.values()) *)
TotalOnes(f) == SumOver(f, DOMAIN f)

(* total_ones, palette_size, and the palette (lines 246-252) *)
BuildPalette ==
    /\ pc = "filter"
    /\ fi > Len(chars)
    /\ total_ones' = TotalOnes(filtered)
    /\ palette_size' = TotalOnes(filtered) + 1
    /\ LET g == GenPalette(rng, TotalOnes(filtered) + 1)
       IN  palette' = g.palette /\ rng' = g.rng
    /\ pc' = "october"
    /\ UNCHANGED <<inputs, aside, seed, fi, filtered, next_palette_index, tables, todo,
                   cur, cmap, hmtx, files, prev>>

(* now.month == 10 *)
IsOctober(now) == now.month = 10

(* a shuffle by the module-level generator, which the seed does not set *)
ShuffleGlobal(x, state) ==
    [palette |-> ShuffleFrom(x, NewRandom(DateSeed(clock)), Len(x)).palette,
     rng |-> state]

(* rng.shuffle(palette) *)
Shuffle(x, state) == ShuffleFrom(x, state, Len(x))

(* the October special (lines 254-258) *)
OctoberSpecial ==
    /\ pc = "october"
    /\ IF IsOctober(clock) /\ Len(palette) > 0
       THEN LET sh == Shuffle([palette EXCEPT ![1] = AccentColor], rng)
            IN  palette' = sh.palette /\ rng' = sh.rng
       ELSE UNCHANGED <<palette, rng>>
    /\ pc' = "fixed"
    /\ UNCHANGED <<inputs, aside, seed, fi, sizing, next_palette_index, tables, todo,
                   cur, cmap, hmtx, files, prev>>

(* ------------------------------------------------------------------ *)
(* build_font: the glyph loop                                          *)
(* ------------------------------------------------------------------ *)
Min(S) == CHOOSE x \in S : \A y \in S : x <= y

(* filtered.keys() as they come, in the order of the table *)
KeysInTableOrder(S) ==
    SelectSeq([k \in 1..Len(chars) |-> chars[k].cp], LAMBDA c : c \in S)

RECURSIVE Sorted(_)
Sorted(S) == IF S = {} THEN <<>> ELSE <<Min(S)>> \o Sorted(S \ {Min(S)})

InSeq(x, s) == \E k \in 1..Len(s) : s[k] = x

NotdefOutline == <<rect_to_pen(80, 80, 920, 920)>>

(* lines 260-286: the counter, the empty tables, .notdef and space *)
SetupGlyphs ==
    /\ pc = "fixed"
    /\ next_palette_index' = 0
    /\ glyph_order' = <<".notdef", "space">>
    /\ glyphs' = Put(Put(Empty, ".notdef", NotdefOutline), "space", <<>>)
    /\ advance_widths' = Put(Put(Empty, ".notdef", metrics.upm), "space", 2 * metrics.cell)
    /\ left_side_bearings' = Put(Put(Empty, ".notdef", 0), "space", 0)
    /\ color_layers' = Empty
    /\ todo' = Sorted(DOMAIN filtered)
    /\ pc' = "glyphs"
    /\ UNCHANGED <<inputs, aside, seed, rng, fi, sizing, palette, cur, cmap, hmtx, files, prev>>

(* if cp == 32: continue *)
SkipSpace ==
    /\ pc = "glyphs"
    /\ todo # <<>>
    /\ Head(todo) = 32
    /\ todo' = Tail(todo)
    /\ UNCHANGED <<inputs, aside, pc, seed, rng, fi, sizing, palette, next_palette_index,
                   tables, cur, cmap, hmtx, files, prev>>

(* the convention that an empty grid is one column wide *)
ColsOfAtLeastOne(pixels) == IF Len(pixels) = 0 THEN 1 ELSE Len(pixels) \div ROWS

(* cols of a filtered grid (lines 296-300) *)
ColsOf(pixels) == IF Len(pixels) = 0 THEN 0 ELSE Len(pixels) \div ROWS

(* an advance width that leaves the right pad out *)
AdvanceWidthNoRightPad(m, cols) ==
    LET aw == (m.left_pad_cells + cols + m.letterspacing_cells) * m.cell
    IN  IF aw <= 0 THEN 2 * m.cell ELSE aw

(* aw (lines 302-304) *)
AdvanceWidth(m, cols) ==
    LET aw == (m.left_pad_cells + cols + m.right_pad_cells + m.letterspacing_cells) * m.cell
    IN  IF aw <= 0 THEN 2 * m.cell ELSE aw

(* left_side_bearings[gname] = 0 and left_side_bearings[layer_name] = 0 *)
SideBearing(outline) == 0

(* the head of the loop body for a drawn glyph (lines 291-312) *)
BeginGlyph ==
    /\ pc = "glyphs"
    /\ todo # <<>>
    /\ Head(todo) # 32
    /\ LET cp     == Head(todo)
           pixels == filtered[cp]
           gname  == glyph_name_for_codepoint(cp)
           cols   == ColsOf(pixels)
           aw     == AdvanceWidth(metrics, cols)
       IN  /\ glyph_order' = IF InSeq(gname, glyph_order) THEN glyph_order
                             ELSE Append(glyph_order, gname)
           /\ advance_widths' = Put(advance_widths, gname, aw)
           /\ left_side_bearings' = Put(left_side_bearings, gname, SideBearing(<<>>))
           /\ cur' = [cp |-> cp, gname |-> gname, pixels |-> pixels, cols |-> cols,
                      aw |-> aw, i |-> 0, base_pen |-> <<>>,
                      layers_for_glyph |-> <<>>]
    /\ todo' = Tail(todo)
    /\ pc' = "pixels"
    /\ UNCHANGED <<inputs, aside, seed, rng, fi, sizing, palette, next_palette_index,
                   glyphs, color_layers, cmap, hmtx, files, prev>>

InPixelLoop == pc = "pixels" /\ cur.cols > 0 /\ cur.i < Len(cur.pixels)

(* if bit != 1: continue *)
SkipPixel ==
    /\ InPixelLoop
    /\ cur.pixels[cur.i + 1] # 1
    /\ cur' = [cur EXCEPT !.i = @ + 1]
    /\ UNCHANGED <<inputs, aside, pc, seed, rng, fi, sizing, palette, next_palette_index,
                   tables, todo, cmap, hmtx, files, prev>>

(* a counter that is clamped two entries short of the palette's end *)
NextIndexClampedEarly(index, size) ==
    IF index + 1 >= size - 2 THEN size - 3 ELSE index + 1

(* a counter that is advanced by two *)
NextIndexByTwo(index, size) == IF index + 2 >= size THEN size - 1 ELSE index + 2

(* an index drawn from the seed rather than counted *)
NextIndexSeeded(index, size) == (index + 1 + seed) % size

(* a counter that is never advanced *)
NextIndexStuck(index, size) == index

(* the clamp of lines 365-368 *)
NextIndex(index, size) == IF index + 1 >= size THEN size - 1 ELSE index + 1

(* a layer glyph with the advance width of a one-column glyph *)
LayerAdvanceOwn(base_aw) ==
    (metrics.left_pad_cells + 1 + metrics.right_pad_cells
       + metrics.letterspacing_cells) * metrics.cell

(* the layer glyph's own advance width (line 358) *)
LayerAdvance(base_aw) == base_aw

(* a layer rectangle of one cell, without the jitter of the base rectangle *)
LayerOutlineUnjittered(base_pen, contour) ==
    <<rect_to_pen(contour[1][1], contour[3][2] - metrics.cell,
                  contour[1][1] + metrics.cell, contour[3][2])>>

(* a layer drawn with the pen of the base glyph *)
LayerOutlineShared(base_pen, contour) == Append(base_pen, contour)

(* layer_pen = TTGlyphPen(None); rect_to_pen(layer_pen, ...) (lines 354-356) *)
LayerOutline(base_pen, contour) == <<contour>>

(* one on-pixel: its rectangle, its layer glyph, its palette index *)
DrawPixel ==
    /\ InPixelLoop
    /\ cur.pixels[cur.i + 1] = 1
    /\ LET jd == IF jitter_px_max > 0 THEN RandInt(rng, 0, jitter_px_max)
                 ELSE [value |-> 0, rng |-> rng]
           extra == IF jitter_px_max > 0 THEN JitterExtra(metrics.cell, jd.value) ELSE 0
           r == PixelRect(metrics, cur.cols, cur.i, extra)
           contour == rect_to_pen(r.x0, r.y0, r.x1, r.y1)
           layer_name == LayerName(cur.gname, next_palette_index)
           pal_index == next_palette_index
       IN  /\ rng' = jd.rng
           /\ glyph_order' = Append(glyph_order, layer_name)
           /\ glyphs' = Put(glyphs, layer_name, LayerOutline(cur.base_pen, contour))
           /\ advance_widths' = Put(advance_widths, layer_name, LayerAdvance(cur.aw))
           /\ left_side_bearings' =
                 Put(left_side_bearings, layer_name,
                     SideBearing(LayerOutline(cur.base_pen, contour)))
           /\ cur' = [cur EXCEPT !.i = @ + 1,
                                 !.base_pen = Append(@, contour),
                                 !.layers_for_glyph = Append(@, <<layer_name, pal_index>>)]
           /\ next_palette_index' = NextIndex(next_palette_index, palette_size)
    /\ UNCHANGED <<inputs, aside, pc, seed, fi, sizing, palette, color_layers, todo,
                   cmap, hmtx, files, prev>>

(* lines 370-372 *)
EndGlyph ==
    /\ pc = "pixels"
    /\ ~InPixelLoop
    /\ glyphs' = Put(glyphs, cur.gname, cur.base_pen)
    /\ color_layers' = IF cur.layers_for_glyph # <<>>
                       THEN Put(color_layers, cur.gname, cur.layers_for_glyph)
                       ELSE color_layers
    /\ pc' = "glyphs"
    /\ UNCHANGED <<inputs, aside, seed, rng, fi, sizing, palette, next_palette_index,
                   glyph_order, advance_widths, left_side_bearings, todo, cur,
                   cmap, hmtx, files, prev>>

(* ------------------------------------------------------------------ *)
(* build_font: character map, metrics, container                       *)
(* ------------------------------------------------------------------ *)
(* a character map of the drawn glyphs only *)
CmapOfDrawn(f) ==
    [cp \in DOMAIN f \ {32} |-> glyph_name_for_codepoint(cp)]

(* a character map with a key for every entry of the table *)
CmapOfTable(f) ==
    [cp \in { chars[k].cp : k \in 1..Len(chars) } |->
        IF cp = 32 THEN "space" ELSE glyph_name_for_codepoint(cp)]

(* cmap[cp] = "space" if cp == 32 else glyph_name_for_codepoint(cp) *)
CmapOf(f) ==
    [cp \in DOMAIN f |-> IF cp = 32 THEN "space" ELSE glyph_name_for_codepoint(cp)]

(* lines 374-377 *)
BuildCmap ==
    /\ pc = "glyphs"
    /\ todo = <<>>
    /\ cmap' = CmapOf(filtered)
    /\ pc' = "hmtx"
    /\ UNCHANGED <<inputs, aside, seed, rng, fi, sizing, palette, next_palette_index,
                   tables, todo, cur, hmtx, files, prev>>

Get(d, k, default) == IF k \in DOMAIN d THEN d[k] ELSE default

SeqRange(s) == { s[k] : k \in 1..Len(s) }

(* lines 383-389 *)
BuildHmtx ==
    /\ pc = "hmtx"
    /\ hmtx' = [gn \in SeqRange(glyph_order) |->
                   <<Get(advance_widths, gn, 2 * metrics.cell),
                     Get(left_side_bearings, gn, 0)>>]
    /\ pc' = "tables"
    /\ UNCHANGED <<inputs, aside, seed, rng, fi, sizing, palette, next_palette_index,
                   tables, todo, cur, cmap, files, prev>>

(* lines 391-436: the container takes the tables, or rejects one *)
SetupTables ==
    /\ pc = "tables"
    /\ \/ pc' = "save_ttf"
       \/ pc' = "failed"
    /\ UNCHANGED <<inputs, aside, seed, rng, fi, sizing, palette, next_palette_index,
                   tables, todo, cur, cmap, hmtx, files, prev>>

SaveStep(at, flavor, then) ==
    /\ pc = at
    /\ \/ files' = files \cup {flavor} /\ pc' = then
       \/ files' = files /\ pc' = "failed"
    /\ UNCHANGED <<inputs, aside, seed, rng, fi, sizing, palette, next_palette_index,
                   tables, todo, cur, cmap, hmtx, prev>>

(* fb.save(ttf_path) *)
SaveTTF == SaveStep("save_ttf", "ttf", "save_woff")

(* font.flavor = "woff"; font.save(woff_path) *)
SaveWOFF == SaveStep("save_woff", "woff", "save_woff2")

(* font.flavor = "woff2"; font.save(woff2_path), RuntimeError on failure *)
SaveWOFF2 == SaveStep("save_woff2", "woff2", "done")

(* ------------------------------------------------------------------ *)
(* The next build                                                      *)
(* ------------------------------------------------------------------ *)
Result ==
    [glyph_order |-> glyph_order, glyphs |-> glyphs, hmtx |-> hmtx, cmap |-> cmap,
     palette |-> palette, color_layers |-> color_layers]

Snapshot ==
    [clock |-> clock, chars |-> chars, seed |-> seed,
     jitter_px_max |-> jitter_px_max, metrics |-> metrics,
     palette_size |-> palette_size, result |-> Result]

(* A finished build is followed by another one of the same command line,  *)
(* at another time and on a table that may have been edited.              *)
Rerun ==
    /\ pc = "done"
    /\ prev = <<>>
    /\ prev' = <<Snapshot>>
    /\ clock' \in RerunDates
    /\ raw' \in { RawOf(t) : t \in RerunTables }
    /\ chars' = <<>>
    /\ warnings' = <<>>
    /\ UNCHANGED <<args_seed, jitter_px_max, metrics, mf, php, gd>>
    /\ pc' = "main"
    /\ seed' = 0
    /\ rng' = 0
    /\ fi' = 1
    /\ filtered' = Empty
    /\ total_ones' = 0
    /\ palette_size' = 0
    /\ palette' = <<>>
    /\ next_palette_index' = 0
    /\ glyph_order' = <<>>
    /\ glyphs' = Empty
    /\ advance_widths' = Empty
    /\ left_side_bearings' = Empty
    /\ color_layers' = Empty
    /\ todo' = <<>>
    /\ cur' = NoGlyph
    /\ cmap' = Empty
    /\ hmtx' = Empty
    /\ files' = {}

InitRerun ==
    /\ clock \in RerunDates
    /\ args_seed \in SeedArgs
    /\ raw \in { RawOf(t) : t \in RerunTables }
    /\ jitter_px_max \in JitterArgs
    /\ metrics = DefaultMetrics
    /\ Fresh
    /\ prev = <<>>
    /\ mf = MfIdle
    /\ php = PhpIdle
    /\ gd = GdIdle

Next ==
    \/ Main
    \/ FilterEntry
    \/ BuildPalette
    \/ OctoberSpecial
    \/ SetupGlyphs
    \/ SkipSpace
    \/ BeginGlyph
    \/ SkipPixel
    \/ DrawPixel
    \/ EndGlyph
    \/ BuildCmap
    \/ BuildHmtx
    \/ SetupTables
    \/ SaveTTF
    \/ SaveWOFF
    \/ SaveWOFF2

Spec == Init /\ [][Next]_vars

NextRerun == Next \/ Rerun

SpecRerun == InitRerun /\ [][NextRerun]_vars

(* ------------------------------------------------------------------ *)
(* generate-manifest.py: compress_to_ranges                            *)
(* ------------------------------------------------------------------ *)
(* codepoints of a character map: runs, a gap of one, a far codepoint *)
ManifestCodepoints == {32, 33, 34, 36, 65}

CodepointLists == SeqsUpTo(ManifestCodepoints, MaxListLen)

build == <<clock, args_seed, raw, chars, jitter_px_max, metrics, pc, seed, rng,
           fi, filtered, total_ones, palette_size, palette, next_palette_index,
           glyph_order, glyphs, advance_widths, left_side_bearings,
           color_layers, todo, cur, cmap, hmtx, files, prev, warnings>>

(* cps = codepoints: the list as it is given *)
AsGiven(codepoints) == codepoints

(* cps = sorted(set(codepoints)) *)
SortedSet(codepoints) == Sorted(SeqRange(codepoints))

(* lines 74-78: the empty list returns at once; cps, ranges, start, prev *)
CompressCall ==
    /\ mf.pc = "call"
    /\ IF mf.codepoints = <<>>
       THEN mf' = [mf EXCEPT !.pc = "returned", !.ranges = <<>>]
       ELSE LET cps == SortedSet(mf.codepoints)
            IN  mf' = [mf EXCEPT !.pc = "loop", !.cps = cps, !.ranges = <<>>,
                                 !.start = cps[1], !.prev = cps[1], !.k = 2]
    /\ UNCHANGED <<build, php, gd>>

(* one iteration of `for cp in cps[1:]` (lines 79-84) *)
CompressStep ==
    /\ mf.pc = "loop"
    /\ mf.k <= Len(mf.cps)
    /\ LET cp == mf.cps[mf.k]
       IN  IF cp = mf.prev + 1
           THEN mf' = [mf EXCEPT !.prev = cp, !.k = @ + 1]
           ELSE mf' = [mf EXCEPT !.ranges = Append(@, <<mf.start, mf.prev>>),
                                 !.start = cp, !.prev = cp, !.k = @ + 1]
    /\ UNCHANGED <<build, php, gd>>

(* lines 85-86: the last range, return ranges *)
CompressReturn ==
    /\ mf.pc = "loop"
    /\ mf.k > Len(mf.cps)
    /\ mf' = [mf EXCEPT !.ranges = Append(@, <<mf.start, mf.prev>>),
                        !.pc = "returned"]
    /\ UNCHANGED <<build, php, gd>>

(* compress_to_ranges is called on a list of codepoints; no font is built *)
InitManifest ==
    /\ clock \in Dates
    /\ clock.month = 11
    /\ args_seed = 1
    /\ raw = RawOf(<<>>)
    /\ jitter_px_max = 0
    /\ metrics = DefaultMetrics
    /\ Fresh
    /\ prev = <<>>
    /\ php = PhpIdle
    /\ gd = GdIdle
    /\ mf \in { [MfIdle EXCEPT !.pc = "call", !.codepoints = c] : c \in CodepointLists }

NextManifest == CompressCall \/ CompressStep \/ CompressReturn

SpecManifest == InitManifest /\ [][NextManifest]_vars

(* ------------------------------------------------------------------ *)
(* run_php_chars_to_json: the output of the PHP process                *)
(* ------------------------------------------------------------------ *)
(* The characters of a captured text: the braces, "T" for a well-formed   *)
(* list of members ("65":[...]), "n" for the literal null, " " for white  *)
(* space, "w" for any other text (a PHP warning).                         *)
OutputChars == {"{", "}", "T", "n", " ", "w"}

StdoutTexts == SeqsUpTo(OutputChars, MaxText)

(* stderr: empty, a warning, the JSON object, a warning and an object *)
StderrTexts == { <<>>, <<"w">>, <<"{", "T", "}">>, <<"w", "{", "}">> }

ExitCodes == {0, 255}

RECURSIVE LStrip(_)
LStrip(s) == IF s # <<>> /\ Head(s) = " " THEN LStrip(Tail(s)) ELSE s

RECURSIVE RStrip(_)
RStrip(s) ==
    IF s # <<>> /\ s[Len(s)] = " " THEN RStrip(SubSeq(s, 1, Len(s) - 1)) ELSE s

(* s.strip() *)
Strip(s) == RStrip(LStrip(s))

(* json.loads(s): the decoded value, or ok = FALSE for a JSONDecodeError *)
JsonLoads(s) ==
    LET t     == Strip(s)
        inner == IF Len(t) >= 2 THEN Strip(SubSeq(t, 2, Len(t) - 1)) ELSE <<>>
    IN  IF t = <<"n">>
        THEN [ok |-> TRUE, value |-> [type |-> "NoneType", members |-> <<>>]]
        ELSE IF /\ Len(t) >= 2
                /\ t[1] = "{"
                /\ t[Len(t)] = "}"
                /\ inner \in {<<>>, <<"T">>}
        THEN [ok |-> TRUE, value |-> [type |-> "dict", members |-> inner]]
        ELSE [ok |-> FALSE, value |-> NoValue]

(* s.find(c): the 0-based index of the first c, -1 without one *)
Find(s, c) ==
    IF \E k \in 1..Len(s) : s[k] = c
    THEN (CHOOSE k \in 1..Len(s) : s[k] = c /\ \A q \in 1..(k - 1) : s[q] # c) - 1
    ELSE -1

(* s.rfind(c): the 0-based index of the last c, -1 without one *)
RFind(s, c) ==
    IF \E k \in 1..Len(s) : s[k] = c
    THEN (CHOOSE k \in 1..Len(s) : s[k] = c /\ \A q \in (k + 1)..Len(s) : s[q] # c) - 1
    ELSE -1

(* the two streams joined into one text *)
CombinedMerged(stdout, stderr) == stdout \o stderr

(* combined_for_fallback (line 104) *)
CombinedForFallback(stdout, stderr) ==
    IF Strip(stdout) # <<>> THEN stdout
    ELSE IF Strip(stderr) # <<>> THEN stderr
    ELSE stdout \o stderr

(* the RuntimeError of lines 113-119 and 131-138 *)
PhpRuntimeError ==
    [type |-> "RuntimeError", carries |-> <<php.returncode, php.stdout, php.stderr>>]

(* the value json.loads gave: a dict is returned, anything else is a      *)
(* TypeError (lines 140-141)                                              *)
PhpDecoded(value) ==
    IF value.type = "dict"
    THEN php' = [php EXCEPT !.pc = "returned", !.raw = value]
    ELSE php' = [php EXCEPT !.pc = "raised",
                            !.error = [type |-> "TypeError", carries |-> <<>>]]

(* first try: raw = json.loads(stdout) (lines 122-125) *)
PhpFirstTry ==
    /\ php.pc = "run"
    /\ IF JsonLoads(php.stdout).ok
       THEN PhpDecoded(JsonLoads(php.stdout).value)
       ELSE php' = [php EXCEPT !.pc = "fallback"]
    /\ UNCHANGED <<build, mf, gd>>

(* json_blob = extract_json_blob(combined_for_fallback) (lines 106-120, 128) *)
PhpExtract ==
    /\ php.pc = "fallback"
    /\ LET s     == CombinedForFallback(php.stdout, php.stderr)
           start == Find(s, "{")
           end   == RFind(s, "}")
       IN  IF start = -1 \/ end = -1 \/ end <= start
           THEN php' = [php EXCEPT !.pc = "raised", !.error = PhpRuntimeError]
           ELSE php' = [php EXCEPT !.pc = "decode",
                                   !.json_blob = SubSeq(s, start + 1, end + 1)]
    /\ UNCHANGED <<build, mf, gd>>

(* second try: raw = json.loads(json_blob) (lines 129-138) *)
PhpDecode ==
    /\ php.pc = "decode"
    /\ IF JsonLoads(php.json_blob).ok
       THEN PhpDecoded(JsonLoads(php.json_blob).value)
       ELSE php' = [php EXCEPT !.pc = "raised", !.error = PhpRuntimeError]
    /\ UNCHANGED <<build, mf, gd>>

(* run_php_chars_to_json has run PHP and captured its output; no font is  *)
(* built                                                                  *)
InitPhp ==
    /\ clock \in Dates
    /\ clock.month = 11
    /\ args_seed = 1
    /\ raw = RawOf(<<>>)
    /\ jitter_px_max = 0
    /\ metrics = DefaultMetrics
    /\ Fresh
    /\ prev = <<>>
    /\ mf = MfIdle
    /\ gd = GdIdle
    /\ php \in { [PhpIdle EXCEPT !.pc = "run", !.stdout = o, !.stderr = e,
                                !.returncode = c] :
                   o \in StdoutTexts, e \in StderrTexts, c \in ExitCodes }

NextPhp == PhpFirstTry \/ PhpExtract \/ PhpDecode

SpecPhp == InitPhp /\ [][NextPhp]_vars

(* ------------------------------------------------------------------ *)
(* generate-data.py: normalize_glyph, infer_dimensions, reshape_rows   *)
(* ------------------------------------------------------------------ *)
PreferredHeights == <<9, 7, 5, 3>>

MaxWidth == 64

NoScore == 1000000000

(* a flat array of n values, 0 and 1 in turn *)
ValuesOf(n) == [k \in 1..n |-> k % 2]

(* the loop over the preferred heights without the limit on the width *)
RECURSIVE FirstPreferredAnyWidth(_, _)
FirstPreferredAnyWidth(n, hs) ==
    IF hs = <<>> THEN None
    ELSE IF n % Head(hs) = 0 THEN Head(hs)
    ELSE FirstPreferredAnyWidth(n, Tail(hs))

(* for h in preferred_heights (lines 91-95): the height returned, or None *)
RECURSIVE FirstPreferred(_, _)
FirstPreferred(n, hs) ==
    IF hs = <<>> THEN None
    ELSE IF n % Head(hs) = 0 /\ 1 <= n \div Head(hs) /\ n \div Head(hs) <= MaxWidth
         THEN Head(hs)
    ELSE FirstPreferred(n, Tail(hs))

(* infer_dimensions up to the fallback loop (lines 86-99) *)
InferPreferred ==
    /\ gd.pc = "infer"
    /\ LET n == Len(gd.values)
           h == FirstPreferred(n, PreferredHeights)
       IN  IF n = 0
           THEN gd' = [gd EXCEPT !.pc = "reshape", !.width = None, !.height = None]
           ELSE IF h # None
           THEN gd' = [gd EXCEPT !.pc = "reshape", !.width = n \div h, !.height = h]
           ELSE gd' = [gd EXCEPT !.pc = "fallback", !.h = 1, !.best = <<>>,
                                 !.best_score = None]
    /\ UNCHANGED <<build, mf, php>>

(* abs(w - h) *)
AbsDiff(w, h) == IF w < h THEN h - w ELSE w - h

(* one iteration of `for h in range(1, n + 1)` (lines 100-107) *)
InferFallbackStep ==
    /\ gd.pc = "fallback"
    /\ gd.h <= Len(gd.values)
    /\ LET n     == Len(gd.values)
           w     == n \div gd.h
           score == AbsDiff(w, gd.h)
       IN  IF n % gd.h # 0
           THEN gd' = [gd EXCEPT !.h = @ + 1]
           ELSE IF \/ gd.best = <<>>
                   \/ score < (IF gd.best_score # None THEN gd.best_score ELSE NoScore)
           THEN gd' = [gd EXCEPT !.h = @ + 1, !.best = <<w, gd.h>>,
                                 !.best_score = score]
           ELSE gd' = [gd EXCEPT !.h = @ + 1]
    /\ UNCHANGED <<build, mf, php>>

(* lines 109-112 *)
InferFallbackReturn ==
    /\ gd.pc = "fallback"
    /\ gd.h > Len(gd.values)
    /\ IF gd.best = <<>>
       THEN gd' = [gd EXCEPT !.pc = "reshape", !.width = None, !.height = None]
       ELSE gd' = [gd EXCEPT !.pc = "reshape", !.width = gd.best[1],
                             !.height = gd.best[2]]
    /\ UNCHANGED <<build, mf, php>>

(* rows = reshape_rows(values, width, height) (lines 115-123, 152) *)
ReshapeRows ==
    /\ gd.pc = "reshape"
    /\ IF gd.values = <<>> \/ gd.width = None \/ gd.height = None
       THEN gd' = [gd EXCEPT !.pc = "normalized", !.rows = <<>>]
       ELSE IF gd.width * gd.height # Len(gd.values)
       THEN gd' = [gd EXCEPT !.pc = "raised", !.error = "ValueError"]
       ELSE gd' = [gd EXCEPT !.pc = "normalized",
                     !.rows = [r \in 1..gd.height |->
                                 SubSeq(gd.values, (r - 1) * gd.width + 1,
                                        r * gd.width)]]
    /\ UNCHANGED <<build, mf, php>>

(* normalize_glyph is called on a flat array; no font is built *)
InitData ==
    /\ clock \in Dates
    /\ clock.month = 11
    /\ args_seed = 1
    /\ raw = RawOf(<<>>)
    /\ jitter_px_max = 0
    /\ metrics = DefaultMetrics
    /\ Fresh
    /\ prev = <<>>
    /\ mf = MfIdle
    /\ php = PhpIdle
    /\ gd \in { [GdIdle EXCEPT !.pc = "infer", !.values = ValuesOf(n)] :
                  n \in 0..MaxValues }

NextData == InferPreferred \/ InferFallbackStep \/ InferFallbackReturn \/ ReshapeRows

SpecData == InitData /\ [][NextData]_vars

(* ================================================================== *)
(* Properties                                                          *)
(* ================================================================== *)
MinOf(S) == CHOOSE x \in S : \A y \in S : x <= y

(* all X coordinates of an outline's contour points *)
OutlineXs(outline) ==
    { outline[c][q][1] : c \in 1..Len(outline), q \in 1..4 }

(* bbox.xMin of an outline, 0 for the empty outline *)
XMinOrZero(outline) == IF outline = <<>> THEN 0 ELSE MinOf(OutlineXs(outline))

(* number of pixels equal to 1 *)
OnCount(pixels) == Cardinality({ k \in 1..Len(pixels) : pixels[k] = 1 })

WellFormed(pixels) == Len(pixels) % ROWS = 0

RECURSIVE OnCountAccepted(_)
OnCountAccepted(t) ==
    IF t = <<>> THEN 0
    ELSE (IF WellFormed(Head(t).pixels) THEN OnCount(Head(t).pixels) ELSE 0)
         + OnCountAccepted(Tail(t))

(* the layer lists of the build: those in the layer table and the one of  *)
(* the glyph being drawn                                                  *)
LayerLists ==
    { <<b, color_layers[b]>> : b \in DOMAIN color_layers }
        \cup (IF pc = "pixels" THEN {<<cur.gname, cur.layers_for_glyph>>} ELSE {})

(* C1: every glyph of an emitted font has a left side bearing equal to    *)
(* the minimum X of its own outline (0 for an empty outline); a build     *)
(* that violates this emits no font.                                      *)
C1_SideBearingIsXMin ==
    files # {} =>
        \A gn \in DOMAIN hmtx : hmtx[gn][2] = XMinOrZero(glyphs[gn])

(* C2: a glyph compiled from a non-empty accepted grid of cols = len/R    *)
(* columns has the advance width (left_pad + cols + right_pad +           *)
(* letterspacing) * cell; a 9x5 grid at cell 85 and pads 1 gives uni0041  *)
(* the advance width 595.                                                 *)
C2_AdvanceWidth ==
    /\ \A cp \in DOMAIN filtered \ {32} :
          LET name == glyph_name_for_codepoint(cp)
              cols == Len(filtered[cp]) \div ROWS
              want == (metrics.left_pad_cells + cols + metrics.right_pad_cells
                         + metrics.letterspacing_cells) * metrics.cell
          IN  Len(filtered[cp]) > 0 =>
                /\ name \in DOMAIN advance_widths => advance_widths[name] = want
                /\ name \in DOMAIN hmtx => hmtx[name][1] = want
                /\ pc = "done" => name \in DOMAIN hmtx
    /\ glyph_name_for_codepoint(65) = "uni0041"
    /\ AdvanceWidth([cell |-> 85, left_pad_cells |-> 1, right_pad_cells |-> 1,
                     letterspacing_cells |-> 0],
                    ColsOf(GridOf(ROWS * 5, {2}))) = 595

C2_Witness ==
    /\ pc = "done"
    /\ metrics.cell = 85
    /\ metrics.left_pad_cells = 1
    /\ 65 \in DOMAIN filtered
    /\ filtered[65] = CornerGrid(2)
    /\ hmtx["uni0041"][1] = 340

(* C3 as stated: an empty grid compiles to a glyph with an empty outline  *)
(* and the advance width of a one-column glyph, (left_pad + 1 +           *)
(* right_pad) * cell; entry 0x20 with an empty grid gives `space` that    *)
(* width (255 at cell 85, pads 1).                                        *)
C3_EmptyGridOneColumn ==
    \A cp \in DOMAIN filtered :
        LET name == glyph_name_for_codepoint(cp)
        IN  (filtered[cp] = <<>> /\ name \in DOMAIN hmtx) =>
              /\ glyphs[name] = <<>>
              /\ hmtx[name][1] =
                   (metrics.left_pad_cells + 1 + metrics.right_pad_cells) * metrics.cell

(* C3 amended: an empty grid compiles to a glyph with an empty outline    *)
(* and the advance width of a zero-column glyph, (left_pad + right_pad +  *)
(* letterspacing) * cell, or 2 * cell when that is not positive; `space`  *)
(* has an empty outline and the advance width 2 * cell.                   *)
C3_EmptyGridZeroColumns ==
    \A cp \in DOMAIN filtered :
        LET name == glyph_name_for_codepoint(cp)
            pads == (metrics.left_pad_cells + metrics.right_pad_cells
                       + metrics.letterspacing_cells) * metrics.cell
        IN  filtered[cp] = <<>> =>
              /\ pc = "done" => name \in DOMAIN hmtx
              /\ name \in DOMAIN hmtx =>
                   /\ glyphs[name] = <<>>
                   /\ hmtx[name][1] =
                        IF cp = 32 \/ pads <= 0 THEN 2 * metrics.cell ELSE pads

C3_Witness ==
    /\ pc = "done"
    /\ metrics.cell = 85
    /\ metrics.left_pad_cells = 1
    /\ 32 \in DOMAIN filtered
    /\ filtered[32] = <<>>
    /\ 65 \in DOMAIN filtered
    /\ filtered[65] = <<>>
    /\ hmtx["space"] = <<170, 0>>
    /\ hmtx["uni0041"] = <<170, 0>>
    /\ glyphs["uni0041"] = <<>>

(* C4: every layer glyph has the advance width of the base glyph it       *)
(* belongs to.                                                            *)
C4_LayerAdvanceIsBase ==
    \A bl \in LayerLists :
        \A k \in 1..Len(bl[2]) :
            LET layer == bl[2][k][1]
            IN  /\ advance_widths[layer] = advance_widths[bl[1]]
                /\ layer \in DOMAIN hmtx => hmtx[layer][1] = hmtx[bl[1]][1]
                /\ pc = "done" => layer \in DOMAIN hmtx

C4_Witness ==
    /\ pc = "done"
    /\ "uni0041" \in DOMAIN color_layers
    /\ "uni0042" \in DOMAIN color_layers
    /\ hmtx["uni0041"][1] # hmtx["uni0042"][1]
    /\ Len(color_layers["uni0042"]) = 2
    /\ hmtx[color_layers["uni0042"][2][1]][1] = hmtx["uni0042"][1]

(* C6: per base glyph there is exactly one layer glyph per palette index  *)
(* in use: no two layers of a base glyph carry the same palette index,    *)
(* and rectangles of one palette index are contours of one layer glyph.   *)
C6_OneLayerPerIndex ==
    \A bl \in LayerLists :
        LET layers == bl[2]
        IN  /\ \A a, b \in 1..Len(layers) :
                 /\ a # b => layers[a][2] # layers[b][2]
                 /\ layers[a][2] = layers[b][2] => layers[a][1] = layers[b][1]
                 /\ a # b => layers[a][1] # layers[b][1]
            /\ Cardinality({ layers[k][2] : k \in 1..Len(layers) }) = Len(layers)
            /\ \A k \in 1..Len(layers) :
                 /\ layers[k][1] \in DOMAIN glyphs
                 /\ glyphs[layers[k][1]] # <<>>

C6_Witness ==
    /\ pc = "done"
    /\ "uni0041" \in DOMAIN color_layers
    /\ "uni0042" \in DOMAIN color_layers
    /\ Len(color_layers["uni0041"]) = 2
    /\ color_layers["uni0042"][1][2] # color_layers["uni0042"][2][2]

RECURSIVE LayerContours(_)
LayerContours(layers) ==
    IF layers = <<>> THEN 0
    ELSE Len(glyphs[Head(layers)[1]]) + LayerContours(Tail(layers))

(* the base glyphs whose loop body has run to its end *)
Finished(cp) ==
    /\ cp \in DOMAIN filtered \ {32}
    /\ ~InSeq(cp, todo)
    /\ pc \notin {"main", "filter", "october", "fixed"}
    /\ ~(pc = "pixels" /\ cur.cp = cp)

(* C7: per base glyph the rectangle contours of all its layer glyphs      *)
(* number as many as the pixels equal to 1 of its grid; a glyph without   *)
(* such a pixel has no layers and no entry in the layer table.            *)
C7_ContoursEqualOnPixels ==
    /\ \A cp \in DOMAIN filtered :
          LET name == glyph_name_for_codepoint(cp)
          IN  Finished(cp) =>
                IF OnCount(filtered[cp]) = 0
                THEN name \notin DOMAIN color_layers
                ELSE /\ name \in DOMAIN color_layers
                     /\ LayerContours(color_layers[name]) = OnCount(filtered[cp])
    /\ pc = "pixels" =>
          LayerContours(cur.layers_for_glyph)
            = OnCount(SubSeq(cur.pixels, 1, cur.i))

C7_Witness ==
    /\ pc = "done"
    /\ 65 \in DOMAIN filtered
    /\ 66 \in DOMAIN filtered
    /\ filtered[65] = BlankGrid
    /\ filtered[66] = CornerGrid(2)
    /\ "uni0041" \notin DOMAIN color_layers
    /\ LayerContours(color_layers["uni0042"]) = 2

AllInRange(pal) ==
    \A k \in 1..Len(pal) :
        /\ pal[k][1] \in 0..127
        /\ pal[k][2] \in 127..255
        /\ pal[k][3] \in 0..191
        /\ pal[k][4] = 128

PaletteBuilt == pc \notin {"main", "filter"}

(* C10: the palette has exactly total on-pixels + 1 entries, and outside  *)
(* October every entry has r in 0..127, g in 127..255, b in 0..191 and    *)
(* alpha 128.                                                             *)
C10_PaletteSizeAndRanges ==
    PaletteBuilt =>
        /\ Len(palette) = palette_size
        /\ Len(palette) = OnCountAccepted(chars) + 1
        /\ clock.month # 10 => AllInRange(palette)

C10_Witness ==
    /\ pc = "done"
    /\ clock.month = 11
    /\ Len(palette) = 5
    /\ AllInRange(palette)

(* ------------------------------------------------------------------ *)
(* Properties of two builds                                            *)
(* ------------------------------------------------------------------ *)
RECURSIVE WithoutMalformed(_)
WithoutMalformed(t) ==
    IF t = <<>> THEN <<>>
    ELSE (IF WellFormed(Head(t).pixels) THEN <<Head(t)>> ELSE <<>>)
         \o WithoutMalformed(Tail(t))

HasMalformed(t) == \E k \in 1..Len(t) : ~WellFormed(t[k].pixels)

BothDone == prev # <<>> /\ pc = "done"

SameArguments ==
    /\ seed = prev[1].seed
    /\ jitter_px_max = prev[1].jitter_px_max
    /\ metrics = prev[1].metrics

(* the names a build gives to a codepoint's glyph and to its layers *)
NamesOf(cp) ==
    { n \in SeqRange(glyph_order) \cup DOMAIN glyphs \cup DOMAIN advance_widths
            \cup DOMAIN color_layers \cup DOMAIN hmtx :
        \/ n = glyph_name_for_codepoint(cp)
        \/ \E k \in 0..Len(palette) :
              n = LayerName(glyph_name_for_codepoint(cp), k) }

(* C5: an entry whose grid length is non-zero and no multiple of R is     *)
(* dropped: no name in the glyph order, no character-map entry, no        *)
(* outline, no layer, no share in the palette size; and every other       *)
(* entry is compiled as it is when the malformed entry is absent.         *)
C5_MalformedDropped ==
    /\ \A k \in 1..Len(chars) :
          ~WellFormed(chars[k].pixels) =>
              /\ chars[k].cp \notin DOMAIN filtered
              /\ chars[k].cp \notin DOMAIN cmap
              /\ chars[k].cp # 32 => NamesOf(chars[k].cp) = {}
    /\ PaletteBuilt => palette_size = OnCountAccepted(chars) + 1
    /\ (/\ BothDone
        /\ SameArguments
        /\ (clock.month = 10) = (prev[1].clock.month = 10)
        /\ \/ chars = WithoutMalformed(prev[1].chars)
           \/ prev[1].chars = WithoutMalformed(chars))
         => Result = prev[1].result

C5_Witness ==
    /\ BothDone
    /\ SameArguments
    /\ clock = prev[1].clock
    /\ HasMalformed(prev[1].chars)
    /\ Len(prev[1].chars) = 2
    /\ chars = WithoutMalformed(prev[1].chars)
    /\ Len(chars) = 1
    /\ "uni0042" \in DOMAIN color_layers
    /\ Result = prev[1].result

OctoberDone == pc \notin {"main", "filter", "october"}

(* C9: for the same seed, the same palette size and the same current      *)
(* month, two palette generations give the same list of RGBA entries.     *)
C9_PaletteDeterministic ==
    (/\ prev # <<>>
     /\ OctoberDone
     /\ seed = prev[1].seed
     /\ palette_size = prev[1].palette_size
     /\ clock.month = prev[1].clock.month)
        => /\ Len(palette) = Len(prev[1].result.palette)
           /\ \A k \in 1..Len(palette) : palette[k] = prev[1].result.palette[k]

C9_Witness ==
    /\ prev # <<>>
    /\ OctoberDone
    /\ seed = prev[1].seed
    /\ palette_size = prev[1].palette_size
    /\ palette_size = 3
    /\ clock.month = 10
    /\ clock # prev[1].clock
    /\ clock.month = prev[1].clock.month
    /\ chars # prev[1].chars
    /\ palette = prev[1].result.palette

(* ------------------------------------------------------------------ *)
(* Palette indices of two builds                                       *)
(* ------------------------------------------------------------------ *)
(* the base glyph name of every codepoint of the tables *)
BaseGlyphName == [cp \in Codepoints |-> glyph_name_for_codepoint(cp)]

(* table t has an accepted entry for cp that is drawn as a base glyph *)
Drawn(t, cp) ==
    cp # 32 /\ \E k \in 1..Len(t) : t[k].cp = cp /\ WellFormed(t[k].pixels)

GridIn(t, cp) == t[CHOOSE k \in 1..Len(t) : t[k].cp = cp].pixels

(* pixel i (0-based) of cp is an on-pixel of a drawn glyph of table t *)
OnIn(t, cp, i) ==
    /\ Drawn(t, cp)
    /\ i < Len(GridIn(t, cp))
    /\ GridIn(t, cp)[i + 1] = 1

RECURSIVE OnCountDrawnBelow(_, _)
OnCountDrawnBelow(t, cp) ==
    IF t = <<>> THEN 0
    ELSE (IF Head(t).cp < cp /\ Head(t).cp # 32 /\ WellFormed(Head(t).pixels)
          THEN OnCount(Head(t).pixels) ELSE 0)
         + OnCountDrawnBelow(Tail(t), cp)

(* the number of on-pixels the build meets before pixel i of cp: those of *)
(* drawn glyphs with a smaller codepoint and the earlier ones of its grid *)
Before(t, cp, i) ==
    OnCountDrawnBelow(t, cp) + OnCount(SubSeq(GridIn(t, cp), 1, i))

(* the palette index that a build (table t, result res) gave pixel i of cp *)
PixelIndex(t, res, cp, i) ==
    res.color_layers[BaseGlyphName[cp]]
        [OnCount(SubSeq(GridIn(t, cp), 1, i)) + 1][2]

PixelIndices == 0..(ROWS * MaxCols - 1)

(* C11 as stated: the palette index of an on-pixel is a function of the   *)
(* seed, the codepoint of its glyph and its linear index only: two builds *)
(* with the same seed give the pixel the same index, whatever other       *)
(* glyphs the table holds and whatever the other pixels of its glyph are. *)
C11_IndexIgnoresOtherPixels ==
    (BothDone /\ seed = prev[1].seed) =>
        \A cp \in Codepoints, i \in PixelIndices :
            (OnIn(chars, cp, i) /\ OnIn(prev[1].chars, cp, i)) =>
                PixelIndex(chars, Result, cp, i)
                    = PixelIndex(prev[1].chars, prev[1].result, cp, i)

(* C11 amended: the palette index of an on-pixel is a function of the     *)
(* number of on-pixels met before it (in drawn glyphs of smaller          *)
(* codepoint, and earlier in its own grid) only, not of the seed: two     *)
(* builds give the pixel the same index exactly when that number is the   *)
(* same, so a glyph or pixel added before it changes its index, and       *)
(* changes after it leave it unchanged.                                   *)
C11_IndexIsEncounterRank ==
    BothDone =>
        \A cp \in Codepoints, i \in PixelIndices :
            (OnIn(chars, cp, i) /\ OnIn(prev[1].chars, cp, i)) =>
                ((PixelIndex(chars, Result, cp, i)
                    = PixelIndex(prev[1].chars, prev[1].result, cp, i))
                 <=> (Before(chars, cp, i) = Before(prev[1].chars, cp, i)))

C11_Witness ==
    /\ BothDone
    /\ seed # prev[1].seed
    /\ Len(prev[1].chars) = 1
    /\ OnIn(prev[1].chars, 66, 0)
    /\ OnIn(prev[1].chars, 66, ROWS - 1)
    /\ Len(chars) = 2
    /\ OnIn(chars, 65, 0)
    /\ ~OnIn(chars, 66, 0)
    /\ OnIn(chars, 66, ROWS - 1)
    /\ PixelIndex(prev[1].chars, prev[1].result, 66, ROWS - 1) = 1
    /\ PixelIndex(chars, Result, 66, ROWS - 1) = 2
    /\ PixelIndex(chars, Result, 65, 0) = 0

(* ------------------------------------------------------------------ *)
(* Sequential palette indices, glyph order, character map              *)
(* ------------------------------------------------------------------ *)
(* the layers recorded so far for the base glyph of cp *)
LayersOf(cp) ==
    IF pc = "pixels" /\ cur.cp = cp THEN cur.layers_for_glyph
    ELSE Get(color_layers, BaseGlyphName[cp], <<>>)

(* the base glyphs whose layer list is looked at in this state: the one   *)
(* being drawn while it is drawn, all of them between two glyphs and in   *)
(* the finished build                                                     *)
LayerListsToCheck ==
    IF pc = "pixels" THEN {cur.cp}
    ELSE IF pc \in {"glyphs", "done"} THEN DOMAIN filtered \ {32}
    ELSE {}

(* C12: the k-th on-pixel encountered (base glyphs by ascending           *)
(* codepoint, pixels in row-major order, k from 0) receives the palette   *)
(* index min(k, palette_size - 1); every recorded palette index lies in   *)
(* 0 .. palette_size - 1.                                                 *)
C12_SequentialIndex ==
    \A cp \in LayerListsToCheck :
        LET layers == LayersOf(cp)
            below  == OnCountDrawnBelow(chars, cp)
        IN  /\ Finished(cp) => Len(layers) = OnCount(filtered[cp])
            /\ \A j \in 1..Len(layers) :
                  /\ layers[j][2] = MinOf({below + (j - 1), palette_size - 1})
                  /\ layers[j][2] >= 0
                  /\ layers[j][2] < palette_size
                  /\ layers[j][2] < Len(palette)

C12_Witness ==
    /\ pc = "done"
    /\ palette_size = 5
    /\ "uni0041" \in DOMAIN color_layers
    /\ "uni0042" \in DOMAIN color_layers
    /\ color_layers["uni0041"][1][2] = 0
    /\ color_layers["uni0042"][1][2] = 2
    /\ color_layers["uni0042"][2][2] = 3

RECURSIVE Ascending(_)
Ascending(S) ==
    IF S = {} THEN <<>> ELSE <<MinOf(S)>> \o Ascending(S \ {MinOf(S)})

(* the names of the layer glyphs of cp, in the order of its layer list *)
LayerNamesOf(cp) == [j \in 1..Len(LayersOf(cp)) |-> LayersOf(cp)[j][1]]

(* the names of the drawn base glyphs cps, in this order *)
BaseNames(cps) == [k \in 1..Len(cps) |-> BaseGlyphName[cps[k]]]

(* the layer names of the base glyphs cps, grouped by base glyph *)
RECURSIVE GroupedLayerNames(_)
GroupedLayerNames(cps) ==
    IF cps = <<>> THEN <<>>
    ELSE LayerNamesOf(Head(cps)) \o GroupedLayerNames(Tail(cps))

(* every base glyph of cps followed by its own layer glyphs *)
RECURSIVE BasesWithLayers(_)
BasesWithLayers(cps) ==
    IF cps = <<>> THEN <<>>
    ELSE <<BaseGlyphName[Head(cps)]>> \o LayerNamesOf(Head(cps))
            \o BasesWithLayers(Tail(cps))

DrawnCodepoints == Ascending(DOMAIN filtered \ {32})

(* C13 as stated: the glyph order is `.notdef`, `space`, every drawn base *)
(* glyph by ascending codepoint, and only after all base glyphs the layer *)
(* glyphs, grouped by the base glyph they belong to.                      *)
C13_LayersAfterAllBases ==
    pc = "done" =>
        glyph_order = <<".notdef", "space">> \o BaseNames(DrawnCodepoints)
                          \o GroupedLayerNames(DrawnCodepoints)

(* C13 amended: the glyph order is `.notdef`, `space`, then every drawn   *)
(* base glyph by ascending codepoint, each one followed at once by its    *)
(* own layer glyphs in pixel order.                                       *)
C13_LayersFollowTheirBase ==
    pc = "done" =>
        glyph_order = <<".notdef", "space">> \o BasesWithLayers(DrawnCodepoints)

C13_Witness ==
    /\ pc = "done"
    /\ glyph_order = <<".notdef", "space", "uni0041", "uni0041.p0", "uni0041.p1",
                       "uni0042", "uni0042.p2", "uni0042.p3">>

(* n names a layer glyph of this build *)
IsLayerName(n) ==
    \E cp \in DOMAIN filtered \ {32} : InSeq(n, LayerNamesOf(cp))

(* the character map has just been written, or the build is finished *)
CmapBuilt == pc \in {"hmtx", "done"}

(* the codepoints whose decimal key is in the JSON object with a grid     *)
(* that the filter accepts                                                *)
AcceptedKeys ==
    { cp \in Codepoints :
        \E k \in 1..Len(raw) :
            raw[k].key = DecChars(cp) /\ WellFormed(raw[k].value) }

(* C14: the character map has exactly the numeric codepoints whose grid   *)
(* was accepted as keys, each mapped to its base glyph name (32 to        *)
(* `space`), a name of the glyph order; no layer glyph name is a target,  *)
(* and symbolic keys such as `.notdef` are never keys.                    *)
C14_CmapKeysAndTargets ==
    CmapBuilt =>
        /\ DOMAIN cmap = AcceptedKeys
        /\ \A cp \in DOMAIN cmap :
              /\ cp \in Nat
              /\ cmap[cp] = IF cp = 32 THEN "space" ELSE BaseGlyphName[cp]
              /\ InSeq(cmap[cp], glyph_order)
              /\ ~IsLayerName(cmap[cp])
              /\ cmap[cp] # ".notdef"
        /\ \A k \in 1..Len(raw) :
              raw[k].key = NotdefKey =>
                  Cardinality(DOMAIN cmap) <= Len(raw) - 1

C14_Witness ==
    /\ pc = "done"
    /\ Len(raw) = 3
    /\ raw[1].key = NotdefKey
    /\ OnCount(raw[1].value) > 0
    /\ raw[2].key = <<"6", "6">>
    /\ raw[3].key = <<"3", "2">>
    /\ DOMAIN color_layers = {"uni0042"}
    /\ DOMAIN cmap = {32, 66}
    /\ cmap[32] = "space"
    /\ cmap[66] = "uni0042"

(* ------------------------------------------------------------------ *)
(* Failure of a build, rectangle geometry                              *)
(* ------------------------------------------------------------------ *)
(* C15: a build either completes or fails outright: when building a      *)
(* table or saving any flavor (TTF, WOFF, WOFF2) fails, the build has    *)
(* ended in failure and no font file of that build is left as output.    *)
C15_NoFileAfterFailure == pc = "failed" => files = {}

(* the 0-based linear indices of the pixels equal to 1, ascending *)
OnIndices(pixels) == Ascending({ k - 1 : k \in { q \in 1..Len(pixels) : pixels[q] = 1 } })

Abs(x) == IF x < 0 THEN 0 - x ELSE x

(* e = round(cell * j / 24), a half going to the even integer *)
IsRounded(e, cell, j) ==
    /\ 2 * Abs(24 * e - cell * j) <= 24
    /\ 2 * Abs(24 * e - cell * j) = 24 => e % 2 = 0

(* extra is round(cell * j / 24) for a draw j of 0..jitter_px_max *)
IsJitterExtra(extra) == \E j \in 0..jitter_px_max : IsRounded(extra, metrics.cell, j)

(* the rectangle of an outline of one contour, from its corner points *)
RectOf(outline) ==
    [x0 |-> outline[1][1][1], y0 |-> outline[1][1][2],
     x1 |-> outline[1][3][1], y1 |-> outline[1][3][2]]

(* the rectangle of the j-th layer glyph of cp *)
LayerRect(cp, j) == RectOf(glyphs[LayersOf(cp)[j][1]])

(* C16 as stated: the on-pixel at linear index i (row = i div cols,      *)
(* col = i mod cols) with jitter draw j has x0 = (left_pad + col) * cell, *)
(* y0 = (bottom_pad + (R - 1 - row)) * cell with bottom_pad = 0,          *)
(* x1 = x0 + cell + extra, y1 = y0 + cell + extra, where                  *)
(* extra = round(cell * j / 24), 0 when jitter is disabled.               *)
C16_RectGrowsUpwards ==
    \A cp \in LayerListsToCheck :
        LET layers == LayersOf(cp)
            on     == OnIndices(filtered[cp])
            cols   == Len(filtered[cp]) \div ROWS
        IN  \A j \in 1..Len(layers) :
                LET row   == on[j] \div cols
                    col   == on[j] % cols
                    r     == RectOf(glyphs[layers[j][1]])
                    extra == r.x1 - r.x0 - metrics.cell
                IN  /\ IsJitterExtra(extra)
                    /\ r.x0 = (metrics.left_pad_cells + col) * metrics.cell
                    /\ r.x1 = r.x0 + metrics.cell + extra
                    /\ r.y0 = (0 + (ROWS - 1 - row)) * metrics.cell
                    /\ r.y1 = r.y0 + metrics.cell + extra

(* C16 amended: x0 = (left_pad + col) * cell and x1 = x0 + cell + extra   *)
(* as stated; y1 = (bottom_pad + (R - row)) * cell, the top edge of the   *)
(* pixel's cell, and y0 = y1 - cell - extra, with bottom_pad = 0 and      *)
(* extra = round(cell * j / 24), 0 when jitter is disabled: the jitter    *)
(* extends the rectangle to the right and downwards, and without jitter   *)
(* y0 = (R - 1 - row) * cell.                                             *)
C16_RectGrowsDownwards ==
    \A cp \in LayerListsToCheck :
        LET layers == LayersOf(cp)
            on     == OnIndices(filtered[cp])
            cols   == Len(filtered[cp]) \div ROWS
        IN  \A j \in 1..Len(layers) :
                LET row   == on[j] \div cols
                    col   == on[j] % cols
                    r     == RectOf(glyphs[layers[j][1]])
                    extra == r.x1 - r.x0 - metrics.cell
                IN  /\ IsJitterExtra(extra)
                    /\ r.x0 = (metrics.left_pad_cells + col) * metrics.cell
                    /\ r.x1 = r.x0 + metrics.cell + extra
                    /\ r.y1 = (0 + (ROWS - row)) * metrics.cell
                    /\ r.y0 = r.y1 - metrics.cell - extra
                    /\ jitter_px_max = 0 => r.y0 = (ROWS - 1 - row) * metrics.cell

C16_Witness ==
    /\ pc = "done"
    /\ jitter_px_max = 3
    /\ metrics.cell = 90
    /\ 65 \in DOMAIN filtered
    /\ filtered[65] = CornerGrid(2)
    /\ LayerRect(65, 2).x0 = 180
    /\ LayerRect(65, 2).x1 > 270
    /\ LayerRect(65, 2).y1 = 90
    /\ LayerRect(65, 2).y0 < 0

(* ------------------------------------------------------------------ *)
(* compress_to_ranges                                                  *)
(* ------------------------------------------------------------------ *)
(* the codepoints covered by a list of inclusive ranges *)
Covered(ranges) == UNION { ranges[k][1]..ranges[k][2] : k \in 1..Len(ranges) }

(* C17: compress_to_ranges returns inclusive ranges that are ascending,   *)
(* pairwise disjoint and non-adjacent (each range starts at least two     *)
(* above the end of the one before) and whose union is exactly the set of *)
(* the input codepoints; the empty input gives the empty list.            *)
C17_RangesPartitionInput ==
    mf.pc = "returned" =>
        /\ \A k \in 1..Len(mf.ranges) :
              /\ Len(mf.ranges[k]) = 2
              /\ mf.ranges[k][1] <= mf.ranges[k][2]
        /\ \A k \in 1..(Len(mf.ranges) - 1) :
              mf.ranges[k + 1][1] >= mf.ranges[k][2] + 2
        /\ Covered(mf.ranges) = SeqRange(mf.codepoints)
        /\ mf.codepoints = <<>> => mf.ranges = <<>>

C17_Witness ==
    /\ mf.pc = "returned"
    /\ mf.codepoints = <<65, 33, 32>>
    /\ mf.ranges = << <<32, 33>>, <<65, 65>> >>

(* ------------------------------------------------------------------ *)
(* The October palette, skipped entries, layer order                   *)
(* ------------------------------------------------------------------ *)
CountIn(s, x) == Cardinality({ k \in 1..Len(s) : s[k] = x })

(* a is a rearrangement of b *)
IsPermutation(a, b) ==
    /\ Len(a) = Len(b)
    /\ \A x \in SeqRange(a) \cup SeqRange(b) : CountIn(a, x) = CountIn(b, x)

(* the palette as generated from the seed, before the October step *)
GeneratedPalette == GenPalette(seed % RngModulus, palette_size).palette

(* C18: in October entry 0 of the palette is overwritten with             *)
(* (255, 68, 136, 128) and then the whole palette is shuffled, so the     *)
(* final palette is a permutation of the generated palette with entry 0   *)
(* replaced (same size, accent present); in every other month the palette *)
(* is left exactly as generated. Stated for the palette right after the   *)
(* October step and for the palette of the finished font.                 *)
C18_OctoberPermutation ==
    (pc = "fixed" \/ pc = "done") =>
        IF clock.month = 10
        THEN /\ Len(palette) = palette_size
             /\ IsPermutation(palette, [GeneratedPalette EXCEPT ![1] = <<255, 68, 136, 128>>])
             /\ InSeq(<<255, 68, 136, 128>>, palette)
        ELSE palette = GeneratedPalette

C18_Witness ==
    /\ pc = "done"
    /\ clock.month = 10
    /\ Len(palette) = 5
    /\ palette[1] # <<255, 68, 136, 128>>
    /\ palette[1] = GeneratedPalette[4]
    /\ \E k \in 2..5 : palette[k] = <<255, 68, 136, 128>>

(* C19: every table entry that is skipped because its length is non-zero  *)
(* and no multiple of R produces a warning that names its key, one        *)
(* warning per skipped entry, and processing continues with the next      *)
(* entry.                                                                 *)
C19_SkippedEntryWarned ==
    \A k \in 1..Len(chars) :
        (k < fi /\ Len(chars[k].pixels) # 0 /\ Len(chars[k].pixels) % ROWS # 0) =>
            /\ chars[k].cp \notin DOMAIN filtered
            /\ CountIn(warnings, chars[k].cp) = 1

(* C20: within the layer list of each base glyph the layers are ordered   *)
(* by strictly ascending palette index.                                   *)
C20_LayersAscending ==
    \A cp \in LayerListsToCheck :
        LET layers == LayersOf(cp)
        IN  \A a, b \in 1..Len(layers) : a < b => layers[a][2] < layers[b][2]

C20_Witness ==
    /\ pc = "done"
    /\ DOMAIN color_layers = {"uni0041", "uni0042"}
    /\ Len(color_layers["uni0041"]) = 2
    /\ Len(color_layers["uni0042"]) = 2
    /\ color_layers["uni0041"][1][2] < color_layers["uni0041"][2][2]
    /\ color_layers["uni0041"][2][2] < color_layers["uni0042"][1][2]
    /\ color_layers["uni0042"][1][2] < color_layers["uni0042"][2][2]

(* ------------------------------------------------------------------ *)
(* Base outlines, names                                                *)
(* ------------------------------------------------------------------ *)
(* the base outline built so far for the base glyph of cp *)
BaseOutlineOf(cp) ==
    IF pc = "pixels" /\ cur.cp = cp THEN cur.base_pen
    ELSE Get(glyphs, BaseGlyphName[cp], <<>>)

(* C21: every drawn glyph's base outline is the monochrome duplicate of   *)
(* its pixels: exactly one rectangle contour per pixel equal to 1, in     *)
(* row-major order, each identical (jitter included) to the rectangle of  *)
(* that pixel's layer glyph; this holds for every glyph of a build.       *)
C21_BaseOutlineDuplicatesLayers ==
    \A cp \in LayerListsToCheck :
        LET layers  == LayersOf(cp)
            outline == BaseOutlineOf(cp)
            on      == OnIndices(filtered[cp])
            cols    == Len(filtered[cp]) \div ROWS
        IN  /\ Len(outline) = Len(layers)
            /\ Finished(cp) => Len(outline) = Len(on)
            /\ \A j \in 1..Len(outline) :
                  /\ Len(glyphs[layers[j][1]]) = 1
                  /\ outline[j] = glyphs[layers[j][1]][1]
                  /\ outline[j][1][1] = (metrics.left_pad_cells + (on[j] % cols)) * metrics.cell
                  /\ outline[j][3][2] = (ROWS - (on[j] \div cols)) * metrics.cell

C21_Witness ==
    /\ pc = "done"
    /\ jitter_px_max = 3
    /\ 65 \in DOMAIN filtered
    /\ 66 \in DOMAIN filtered
    /\ filtered[65] = CornerGrid(2)
    /\ filtered[66] = BlankGrid
    /\ glyphs["uni0042"] = <<>>
    /\ Len(glyphs["uni0041"]) = 2
    /\ glyphs["uni0041"][2] = glyphs["uni0041.p1"][1]
    /\ glyphs["uni0041"][2][3][1] - glyphs["uni0041"][2][1][1] > metrics.cell

(* ------------------------------------------------------------------ *)
(* run_php_chars_to_json                                               *)
(* ------------------------------------------------------------------ *)
Blank(s, from, to) == \A k \in from..to : s[k] = " "

(* t is the text of a JSON object: braces around white space and at most  *)
(* one list of members                                                    *)
IsObjectText(t) ==
    /\ Len(t) >= 2
    /\ t[1] = "{"
    /\ t[Len(t)] = "}"
    /\ \/ Blank(t, 2, Len(t) - 1)
       \/ \E m \in 2..(Len(t) - 1) :
             t[m] = "T" /\ Blank(t, 2, m - 1) /\ Blank(t, m + 1, Len(t) - 1)

(* s is a JSON document: white space around null or around an object *)
IsJsonText(s) ==
    \E a, b \in 1..Len(s) :
        /\ a <= b
        /\ Blank(s, 1, a - 1)
        /\ Blank(s, b + 1, Len(s))
        /\ SubSeq(s, a, b) = <<"n">> \/ IsObjectText(SubSeq(s, a, b))

HasSpan(s) == \E a, b \in 1..Len(s) : a < b /\ s[a] = "{" /\ s[b] = "}"

(* the text from the first "{" to the last "}" of s *)
SpanOf(s) ==
    LET a == CHOOSE k \in 1..Len(s) : s[k] = "{" /\ \A q \in 1..Len(s) : s[q] = "{" => k <= q
        b == CHOOSE k \in 1..Len(s) : s[k] = "}" /\ \A q \in 1..Len(s) : s[q] = "}" => q <= k
    IN  SubSeq(s, a, b)

(* s holds a well-formed object between its first "{" and its last "}" *)
HasObject(s) ==
    /\ \E k \in 1..Len(s) : s[k] = "{"
    /\ \E k \in 1..Len(s) : s[k] = "}"
    /\ IsObjectText(SpanOf(s))

PhpEnded == php.pc \in {"returned", "raised"}

(* the outcome of the recovery from text s: the object of s, or the fatal *)
(* error with the exit code and both captured streams                     *)
RecoveredFrom(s) ==
    IF HasObject(s)
    THEN /\ php.pc = "returned"
         /\ php.raw.type = "dict"
         /\ php.raw.members = SelectSeq(SpanOf(s), LAMBDA c : c = "T")
    ELSE /\ php.pc = "raised"
         /\ php.error.type = "RuntimeError"
         /\ php.error.carries = <<php.returncode, php.stdout, php.stderr>>

(* C22 as stated: when stdout is not itself valid JSON, the glyph table   *)
(* is recovered from the JSON object spanning the first "{" to the last   *)
(* "}" of the combined output (stdout and stderr), and the fatal error    *)
(* with the exit code and the captured streams is raised only when no     *)
(* well-formed object can be extracted from that output.                  *)
C22_RecoversFromCombinedOutput ==
    (PhpEnded /\ ~IsJsonText(php.stdout)) =>
        RecoveredFrom(php.stdout \o php.stderr)

(* C22 amended: when stdout is not itself valid JSON, the glyph table is  *)
(* recovered from the JSON object spanning the first "{" to the last "}"  *)
(* of stdout alone, or of stderr alone when stdout is blank (the streams  *)
(* are never merged); the fatal error with the exit code and the captured *)
(* streams is raised when that one text holds no well-formed object, even *)
(* if the other stream holds one.                                         *)
C22_RecoversFromOneStream ==
    (PhpEnded /\ ~IsJsonText(php.stdout)) =>
        RecoveredFrom(IF \E k \in 1..Len(php.stdout) : php.stdout[k] # " "
                      THEN php.stdout ELSE php.stderr)

C22_Witness ==
    /\ php.pc = "returned"
    /\ php.stdout = <<"w", "{", "T", "}">>
    /\ php.stderr = <<"w">>
    /\ php.json_blob = <<"{", "T", "}">>
    /\ php.raw.members = <<"T">>

(* ------------------------------------------------------------------ *)
(* infer_dimensions                                                    *)
(* ------------------------------------------------------------------ *)
(* h divides n into 1..64 columns *)
FitsHeight(n, h) == n % h = 0 /\ 1 <= n \div h /\ n \div h <= 64

(* C23: infer_dimensions returns (None, None) for an empty array and, for *)
(* every non-empty flat array of length n, (width, height) with           *)
(* width * height = n, so reshape_rows never raises a dimension mismatch  *)
(* on its result: the height is the first h among 9, 7, 5, 3 that divides *)
(* n with 1 <= n / h <= 64, and otherwise the result is the factor pair   *)
(* of n with the smallest |width - height|.                               *)
C23_InferredDimensions ==
    /\ gd.pc # "raised"
    /\ gd.pc = "normalized" =>
          LET n == Len(gd.values)
          IN  IF n = 0
              THEN gd.width = None /\ gd.height = None /\ gd.rows = <<>>
              ELSE /\ gd.width >= 1
                   /\ gd.height >= 1
                   /\ gd.width * gd.height = n
                   /\ Len(gd.rows) = gd.height
                   /\ \A r \in 1..gd.height :
                         /\ Len(gd.rows[r]) = gd.width
                         /\ \A c \in 1..gd.width :
                               gd.rows[r][c] = gd.values[(r - 1) * gd.width + c]
                   /\ IF FitsHeight(n, 9) THEN gd.height = 9
                      ELSE IF FitsHeight(n, 7) THEN gd.height = 7
                      ELSE IF FitsHeight(n, 5) THEN gd.height = 5
                      ELSE IF FitsHeight(n, 3) THEN gd.height = 3
                      ELSE \A a \in 1..n :
                             n % a = 0 =>
                                Abs(gd.width - gd.height) <= Abs(a - n \div a)

C23_Witness ==
    /\ gd.pc = "normalized"
    /\ Len(gd.values) = 325
    /\ gd.width = 25
    /\ gd.height = 13
    /\ Len(gd.rows) = 13

(* all layer entries of the build, as (base name, layer name, index) *)
AllLayerEntries ==
    UNION { { <<BaseGlyphName[cp], LayersOf(cp)[j][1], LayersOf(cp)[j][2]>> :
                j \in 1..Len(LayersOf(cp)) } :
            cp \in DOMAIN filtered \ {32} }

(* C24: the names of the glyph order are pairwise distinct, each has      *)
(* exactly one outline and one (advance width, left side bearing) entry,  *)
(* and every layer name <base>.p<index> identifies the base glyph under   *)
(* which it is listed in the layer table and the palette index recorded   *)
(* with it.                                                               *)
C24_NamesDistinctAndDecodable ==
    /\ \A a, b \in 1..Len(glyph_order) : a # b => glyph_order[a] # glyph_order[b]
    /\ pc \in {"tables", "done"} =>
          /\ DOMAIN glyphs = SeqRange(glyph_order)
          /\ DOMAIN hmtx = SeqRange(glyph_order)
    /\ pc \in {"glyphs", "done"} =>
          LET entries == AllLayerEntries
          IN  /\ \A e \in entries :
                    /\ e[2] = e[1] \o ".p" \o DecStr(e[3])
                    /\ InSeq(e[2], glyph_order)
              /\ \A e, f \in entries :
                    e[2] = f[2] => (e[1] = f[1] /\ e[3] = f[3])

C24_Witness ==
    /\ pc = "done"
    /\ Len(glyph_order) = 8
    /\ Cardinality(SeqRange(glyph_order)) = 8
    /\ Cardinality(DOMAIN hmtx) = 8
    /\ color_layers["uni0042"][2] = <<"uni0042.p3", 3>>
    /\ color_layers["uni0041"][2] = <<"uni0041.p1", 1>>

(* a codepoint above every codepoint of the tables *)
AboveAll == 1 + CHOOSE c \in Codepoints : \A d \in Codepoints : d <= c

(* the number of on-pixels of drawn glyphs that the glyph loop has gone   *)
(* through, counted in the table: those of the glyphs before the current  *)
(* or next one, and the ones before the position in the current grid     *)
ProcessedOnPixels ==
    IF pc \in {"main", "filter", "october", "fixed"} THEN 0
    ELSE IF pc = "pixels"
    THEN OnCountDrawnBelow(chars, cur.cp) + OnCount(SubSeq(cur.pixels, 1, cur.i))
    ELSE IF todo # <<>> THEN OnCountDrawnBelow(chars, Head(todo))
    ELSE OnCountDrawnBelow(chars, AboveAll)

(* C25: on a table of 0/1 grids the running palette counter is never      *)
(* clamped: after any number of processed on-pixels it equals that number *)
(* and is at most palette_size - 1; no two on-pixels of the font share a  *)
(* palette index, and the last palette entry, whose index is the total    *)
(* number of on-pixels, is referenced by no layer.                        *)
C25_CounterNeverClamped ==
    pc \notin {"main", "filter"} =>
        /\ next_palette_index = ProcessedOnPixels
        /\ next_palette_index <= palette_size - 1
        /\ palette_size - 1 = OnCountAccepted(chars)
        /\ LET entries == AllLayerEntries
           IN  /\ \A e, f \in entries : e[3] = f[3] => e = f
               /\ \A e \in entries : e[3] # palette_size - 1

C25_Witness ==
    /\ pc = "done"
    /\ next_palette_index = 4
    /\ palette_size = 5
    /\ Cardinality(AllLayerEntries) = 4
    /\ Cardinality({ e[3] : e \in AllLayerEntries }) = 4

(* the table has an entry for codepoint 32 *)
HasSpaceEntry == \E k \in 1..Len(chars) : chars[k].cp = 32

(* the glyph tables exist: .notdef and space have been made *)
GlyphsSetUp == pc \notin {"main", "filter", "october", "fixed"}

(* the glyph loop has ended *)
GlyphLoopEnded == GlyphsSetUp /\ pc # "pixels" /\ todo = <<>>

(* what holds of `space` whatever the entry for codepoint 32 is: it is in *)
(* the glyph order once, empty, 2 * cell wide, without layers, and the    *)
(* font has no glyph besides .notdef, space, and the drawn glyphs with    *)
(* one layer per on-pixel                                                 *)
SpaceUntouched ==
    /\ Cardinality({ k \in 1..Len(glyph_order) : glyph_order[k] = "space" }) = 1
    /\ glyphs["space"] = <<>>
    /\ advance_widths["space"] = 2 * metrics.cell
    /\ "space" \notin DOMAIN color_layers
    /\ pc = "done" => hmtx["space"] = <<2 * metrics.cell, 0>>
    /\ GlyphLoopEnded =>
          /\ Cardinality(AllLayerEntries) = OnCountDrawnBelow(chars, AboveAll)
          /\ Len(glyph_order) =
                2 + Len(DrawnCodepoints) + OnCountDrawnBelow(chars, AboveAll)

(* the palette has an entry for every on-pixel of the drawn glyphs, one   *)
(* for every on-pixel of the grid of codepoint 32, and one more           *)
SpacePixelsCounted ==
    palette_size =
        1 + OnCountDrawnBelow(chars, AboveAll) + OnCount(GridIn(chars, 32))

(* C26 as stated: a table entry for codepoint 32 never creates or changes *)
(* a glyph: space is in the glyph order with an empty outline, advance    *)
(* width 2 * cell and no layers, codepoint 32 maps to it, even when the   *)
(* grid of the entry has on-pixels, and those pixels are counted in the   *)
(* palette size although no layer uses them.                              *)
C26_SpaceEntryMapped ==
    (HasSpaceEntry /\ GlyphsSetUp) =>
        /\ SpaceUntouched
        /\ SpacePixelsCounted
        /\ CmapBuilt => (32 \in DOMAIN cmap /\ cmap[32] = "space")

(* C26, amended: a table entry for codepoint 32 never creates or changes  *)
(* a glyph: space is in the glyph order with an empty outline, advance    *)
(* width 2 * cell and no layers. If the grid of the entry is accepted     *)
(* (empty, or a multiple of ROWS long), codepoint 32 maps to space, even  *)
(* when the grid has on-pixels, and those pixels are counted in the       *)
(* palette size although no layer uses them; an entry whose grid is       *)
(* dropped leaves codepoint 32 unmapped and its pixels uncounted.         *)
C26_AcceptedSpaceEntryMapped ==
    (HasSpaceEntry /\ GlyphsSetUp) =>
        /\ SpaceUntouched
        /\ IF WellFormed(GridIn(chars, 32))
           THEN /\ SpacePixelsCounted
                /\ CmapBuilt => (32 \in DOMAIN cmap /\ cmap[32] = "space")
           ELSE /\ palette_size = 1 + OnCountDrawnBelow(chars, AboveAll)
                /\ CmapBuilt => 32 \notin DOMAIN cmap

(* an accepted entry for codepoint 32 with two on-pixels, next to a drawn *)
(* glyph with two: five palette entries, two layers, 32 mapped to space   *)
C26_Witness ==
    /\ pc = "done"
    /\ HasSpaceEntry
    /\ OnCount(GridIn(chars, 32)) = 2
    /\ WellFormed(GridIn(chars, 32))
    /\ palette_size = 5
    /\ Cardinality(AllLayerEntries) = 2
    /\ glyph_order = <<".notdef", "space", "uni0041", "uni0041.p0", "uni0041.p1">>
    /\ cmap[32] = "space"
    /\ glyphs["space"] = <<>>

====
